---- MODULE Spec2Model ----
(***************************************************************************)
(* Coin economy, referral ledger and bot deployment gate of the BotHost    *)
(* server (Express handlers over a PostgreSQL schema with triggers).       *)
(*                                                                         *)
(* Every `await pool.query(...)` of a handler is one atomic step: the      *)
(* statement and the triggers it fires commit or fail together, and other  *)
(* handlers may run between two statements of one handler.  The schema is  *)
(* taken as installed in full: tables, constraints, triggers, seed rows.   *)
(***************************************************************************)
EXTENDS Integers, Sequences, FiniteSets, Bags, TLC

(* ---------------------------- bounds ----------------------------------- *)
MaxInFlight == 2      \* requests in flight at once
MaxRequests == 3      \* requests other than logins ever started
MaxDay == 2           \* claim requests arrive on the days 1..MaxDay

(* ------------------------- program constants --------------------------- *)
ReferrerBonus == 100
WelcomeBonus == 50
DailyCoins == 10
DeployCost == 50
AdminCoins == 1000
TestUserCoins == 100
ReferralCodeMaxLen == 20

NullId == 0           \* SQL NULL in a UUID column
NullDate == 0         \* SQL NULL in a DATE column
Undefined == "undefined"   \* a field absent from the request body

(* ------------------------- request inputs ------------------------------ *)
Usernames == {"bob", "testuser"}
Emails == {"bob@x.io", "test@example.com"}
RegPasswords == {"admin123"}
LoginPasswords == {"admin123", "wrong"}
Suffixes == {"X7K2QA"}
ReferralCodeInputs == {Undefined, "TEST456", "NOPE99"}
GoodRepo == [scheme |-> "https", host |-> "github.com"]
BadRepo == [scheme |-> "https", host |-> "gitlab.com"]
BotSpecs == {[botName |-> "bot", repoUrl |-> GoodRepo],
             [botName |-> "bot", repoUrl |-> BadRepo]}
NoBotSpec == [botName |-> Undefined, repoUrl |-> BadRepo]
AdminEmail == "admin@bothost.com"
NoSuchToken == -1     \* a verification token no row holds
NoSuchBot == 0        \* a bot id no row holds
EnvInputs == {"{KEY: v}"}
NoToken == 0          \* no Authorization header
ForgedToken == -1     \* a token jwt.verify rejects

VARIABLES
    users,              \* table users: sequence of rows, id = index
    bots,               \* table bots
    coin_transactions,  \* table coin_transactions
    referrals,          \* table referrals
    timers,             \* bot ids with a pending setTimeout callback
    tokens,             \* user ids a JWT has been signed for
    clock,              \* the calendar day of the latest claim request
    nreq,               \* register, claim and deploy requests started so far
    inflight,           \* bag of the requests being handled: each handler's
                        \* position and locals
    out,                \* the response sent by the last step, if it sent one
    mig                 \* the run of the migration script: its position, the
                        \* statements it sent and the database's objects

vars == <<users, bots, coin_transactions, referrals, timers, tokens, clock, nreq, inflight, out, mig>>

\* what the HTTP handlers and the timer callback read and write
serverVars == <<users, bots, coin_transactions, referrals, timers, tokens, clock, nreq, inflight, out>>

(* ---------------- migrations/migrate.js: runMigrations ----------------- *)
MaxStatements == 3      \* statements in a schema file

Semi == ";"
Blank == "\n"

\* A text is the sequence of its runs of characters other than ';', with
\* every ';' as an element of its own. A statement of database_schema.sql is
\* written with the runs between the ';' it contains, and ends with a ';'.
CreateTable(n) == [kind |-> "table", name |-> n, into |-> n, runs |-> <<"CREATE TABLE " \o n>>]
\* CREATE OR REPLACE FUNCTION n() RETURNS TRIGGER AS $$ BEGIN ...; END; $$ language 'plpgsql';
CreateFunction(n) ==
    [kind |-> "function", name |-> n, into |-> n,
     runs |-> <<"CREATE OR REPLACE FUNCTION " \o n \o " AS $$ BEGIN RETURN NEW", " END", " $$ language 'plpgsql'">>]
InsertRow(n, t) == [kind |-> "insert", name |-> n, into |-> t, runs |-> <<"INSERT INTO " \o t \o " VALUES " \o n>>]

SchemaStatements ==
    {CreateTable("users"), CreateTable("bots"),
     CreateFunction("handle_referral_bonus"), InsertRow("admin", "users")}

\* the text of one statement, its closing ';' included
RECURSIVE JoinRuns(_)
JoinRuns(runs) ==
    IF Len(runs) = 1 THEN <<runs[1]>>
    ELSE <<runs[1], Semi>> \o JoinRuns(Tail(runs))

StatementText(s) == JoinRuns(s.runs) \o <<Semi>>

\* the schema files: up to MaxStatements different statements in any order,
\* each followed by a line break
Schemas ==
    {f \in UNION {[1..n -> SchemaStatements] : n \in 1..MaxStatements} :
        \A i, j \in DOMAIN f : f[i] = f[j] => i = j}

RECURSIVE SchemaSql(_)
SchemaSql(schema) ==
    IF schema = <<>> THEN <<>>
    ELSE StatementText(Head(schema)) \o <<Blank>> \o SchemaSql(Tail(schema))

\* String.prototype.split(';'): the pieces between the separators, in order
RECURSIVE SplitFrom(_, _)
SplitFrom(text, piece) ==
    IF text = <<>> THEN <<piece>>
    ELSE IF Head(text) = Semi THEN <<piece>> \o SplitFrom(Tail(text), <<>>)
    ELSE SplitFrom(Tail(text), Append(piece, Head(text)))

Split(text) == SplitFrom(text, <<>>)

\* stmt.trim(): truthy unless the piece is empty or all white space
Trimmed(piece) == SelectSeq(piece, LAMBDA run : run # Blank)
NonBlank(piece) == Trimmed(piece) # <<>>

\* schemaSql.split(';').filter(stmt => stmt.trim())
Statements(schemaSql) == SelectSeq(Split(schemaSql), NonBlank)

\* error messages of the server, as sequences of words
NoError == <<>>
RelationExists == <<"relation", "already", "exists">>
DuplicateKey == <<"duplicate", "key", "value", "violates", "unique", "constraint">>
NoRelation == <<"relation", "does", "not", "exist">>
UnterminatedQuote == <<"unterminated", "dollar-quoted", "string">>
SyntaxError == <<"syntax", "error">>
ConnectionLost == <<"Connection", "terminated", "unexpectedly">>

\* String.prototype.includes
Includes(msg, words) ==
    \E k \in 0..(Len(msg) - Len(words)) : SubSeq(msg, k + 1, k + Len(words)) = words

AlreadyExists == <<"already", "exists">>

\* the test of the catch block: is the error logged and the loop continued?
Skipped(msg) == Includes(msg, AlreadyExists)

\* the objects a database may hold before the run
Catalogs == {c \in SUBSET {"users", "bots", "admin"} : "admin" \in c => "users" \in c}

\* pool.query(q) on a database with the objects in catalog: the error
\* message (NoError when it ran) and the objects afterwards
Query(q, catalog) ==
    LET body == Trimmed(q)
        whole == {s \in SchemaStatements : body = StatementText(s)}
        opens == {s \in SchemaStatements : s.kind = "function" /\ body = <<s.runs[1], Semi>>}
    IN IF whole # {}
       THEN LET s == CHOOSE x \in whole : TRUE
            IN CASE s.kind = "table" ->
                      IF s.name \in catalog
                      THEN [error |-> RelationExists, catalog |-> catalog]
                      ELSE [error |-> NoError, catalog |-> catalog \cup {s.name}]
                 [] s.kind = "insert" ->
                      IF s.into \notin catalog
                      THEN [error |-> NoRelation, catalog |-> catalog]
                      ELSE IF s.name \in catalog
                      THEN [error |-> DuplicateKey, catalog |-> catalog]
                      ELSE [error |-> NoError, catalog |-> catalog \cup {s.name}]
                 [] OTHER ->
                      [error |-> NoError, catalog |-> catalog \cup {s.name}]
       ELSE IF opens # {}
       THEN [error |-> UnterminatedQuote, catalog |-> catalog]
       ELSE [error |-> SyntaxError, catalog |-> catalog]

MigIdle ==
    [pc |-> "idle", schema |-> <<>>, statements |-> <<>>, i |-> 0,
     sent |-> <<>>, log |-> <<>>, catalog |-> {}]

\* runMigrations starts: the schema file is read and split
MigRead ==
    /\ mig.pc = "idle"
    /\ \E schema \in Schemas, catalog \in Catalogs :
          mig' = [mig EXCEPT !.pc = "loop", !.schema = schema,
                             !.statements = Statements(SchemaSql(schema)),
                             !.i = 0, !.catalog = catalog]
    /\ UNCHANGED serverVars

\* one turn of the loop: statements[i] + ';' is sent; an error is logged and,
\* unless its message includes 'already exists', thrown to the outer catch,
\* which ends the process with exit code 1
MigStatement ==
    /\ mig.pc = "loop"
    /\ mig.i < Len(mig.statements)
    /\ \E connected \in BOOLEAN :
          LET statement == mig.statements[mig.i + 1] \o <<Semi>>
              res == IF connected THEN Query(statement, mig.catalog)
                     ELSE [error |-> ConnectionLost, catalog |-> mig.catalog]
          IN mig' = [mig EXCEPT
                        !.sent = Append(@, statement),
                        !.log = Append(@, res.error),
                        !.catalog = res.catalog,
                        !.i = IF res.error = NoError \/ Skipped(res.error) THEN @ + 1 ELSE @,
                        !.pc = IF res.error = NoError \/ Skipped(res.error) THEN @ ELSE "failed"]
    /\ UNCHANGED serverVars

\* the loop is over: 'Database migrations completed successfully', pool.end()
MigCompleted ==
    /\ mig.pc = "loop"
    /\ mig.i = Len(mig.statements)
    /\ mig' = [mig EXCEPT !.pc = "completed"]
    /\ UNCHANGED serverVars

(* ------------------------- JavaScript values --------------------------- *)
JsString(v) == [t |-> "string", v |-> v]
JsDate(v) == [t |-> "object", v |-> v]
JsNull == [t |-> "null", v |-> 0]

\* new Date().toISOString().split('T')[0]: the day as a 'YYYY-MM-DD' string
TodayString(day) == JsString(day)

\* node-postgres hands a DATE column to the handler through its default
\* type parser: NULL stays null, any other value becomes a new Date object
PgParseDate(col) == IF col = NullDate THEN JsNull ELSE JsDate(col)

\* a === b: same type and same value; two objects are equal only when they
\* are the same object, which a freshly parsed Date never is
StrictEquals(a, b) ==
    IF a.t # b.t THEN FALSE
    ELSE IF a.t = "object" THEN FALSE
    ELSE a.v = b.v

(* ---------------------------- bcrypt ----------------------------------- *)
BcryptHash(password) == [hash |-> password]
BcryptCompare(password, hashed) == hashed = BcryptHash(password)

(* ---------------------------- schema ----------------------------------- *)
UserRow(id, username, email, password, code, referrer, vtoken, verified, admin, coins) ==
    [id |-> id, username |-> username, email |-> email, password |-> password,
     referral_code |-> code, referrer_id |-> referrer,
     verification_token |-> vtoken, is_verified |-> verified,
     is_admin |-> admin, coins |-> coins, last_coin_claim |-> NullDate]

AdminUser ==
    UserRow(1, "admin", "admin@bothost.com", BcryptHash("admin123"), "ADMIN123",
            NullId, NullId, TRUE, TRUE, AdminCoins)

TestUser ==
    UserRow(2, "testuser", "test@example.com", BcryptHash("admin123"), "TEST456",
            NullId, NullId, TRUE, FALSE, TestUserCoins)

TxnRow(user, amount, type) == [user_id |-> user, amount |-> amount, type |-> type]

ReferralRow(referrer, referred) ==
    [referrer_id |-> referrer, referred_id |-> referred, bonus_given |-> TRUE]

BotRow(id, user, spec) ==
    [id |-> id, user_id |-> user, name |-> spec.botName,
     repo_url |-> spec.repoUrl, env_vars |-> "{}", status |-> "pending"]

\* the tables a statement on users may touch
Db == [users |-> users, txns |-> coin_transactions, referrals |-> referrals]

\* the users table created without its CHECK on coins
CoinsCheckDropped(row) == TRUE

\* users.coins CHECK (coins >= 0)
CoinsCheck(row) == row.coins >= 0

\* bots.name NOT NULL and CONSTRAINT valid_repo_url
BotRowCheck(row) ==
    /\ row.name # Undefined
    /\ row.repo_url.scheme \in {"http", "https"}
    /\ row.repo_url.host = "github.com"

\* trigger after_coin_claim: AFTER UPDATE ON users FOR EACH ROW
handle_daily_coin_claim(OLDROW, NEWROW, txns) ==
    IF NEWROW.last_coin_claim # NullDate /\ OLDROW.last_coin_claim # NEWROW.last_coin_claim
    THEN Append(txns, TxnRow(NEWROW.id, DailyCoins, "daily_claim"))
    ELSE txns

\* the UPDATE with no WHERE clause: every row gets the coins written
SqlUpdateUserEveryRow(db, id, newRow) ==
    IF ~CoinsCheck(newRow)
    THEN [ok |-> FALSE, db |-> db]
    ELSE [ok |-> TRUE,
          db |-> [db EXCEPT !.users = [i \in DOMAIN db.users |->
                                         IF i = id THEN newRow
                                         ELSE [db.users[i] EXCEPT !.coins = newRow.coins]],
                            !.txns = handle_daily_coin_claim(db.users[id], newRow, db.txns)]]

\* UPDATE users SET ... WHERE id = id, with its CHECK and its row trigger
SqlUpdateUser(db, id, newRow) ==
    IF ~CoinsCheck(newRow)
    THEN [ok |-> FALSE, db |-> db]
    ELSE [ok |-> TRUE,
          db |-> [db EXCEPT !.users[id] = newRow,
                            !.txns = handle_daily_coin_claim(db.users[id], newRow, db.txns)]]

\* the trigger paying the new account only, the referrer being left to the
\* handler's own UPDATE
handle_referral_bonus_referred_only(db, NEWROW) ==
    IF NEWROW.referrer_id = NullId
    THEN [ok |-> TRUE, db |-> db]
    ELSE
      LET s3 == SqlUpdateUser(db, NEWROW.id,
                    [db.users[NEWROW.id] EXCEPT !.coins = @ + WelcomeBonus])
          d4 == [s3.db EXCEPT
                    !.txns = Append(@, TxnRow(NEWROW.id, WelcomeBonus, "referral_bonus"))]
      IN  IF s3.ok THEN [ok |-> TRUE, db |-> d4] ELSE [ok |-> FALSE, db |-> db]

\* trigger after_user_insert: AFTER INSERT ON users FOR EACH ROW
handle_referral_bonus(db, NEWROW) ==
    IF NEWROW.referrer_id = NullId
    THEN [ok |-> TRUE, db |-> db]
    ELSE
      LET ref == NEWROW.referrer_id
          s1 == SqlUpdateUser(db, ref,
                    [db.users[ref] EXCEPT !.coins = @ + ReferrerBonus])
          dup == \E i \in 1..Len(s1.db.referrals) :
                    s1.db.referrals[i].referred_id = NEWROW.id
          d2 == [s1.db EXCEPT
                    !.referrals = Append(@, ReferralRow(ref, NEWROW.id)),
                    !.txns = Append(@, TxnRow(ref, ReferrerBonus, "referral_bonus"))]
          s3 == SqlUpdateUser(d2, NEWROW.id,
                    [d2.users[NEWROW.id] EXCEPT !.coins = @ + WelcomeBonus])
          d4 == [s3.db EXCEPT
                    !.txns = Append(@, TxnRow(NEWROW.id, WelcomeBonus, "referral_bonus"))]
      IN  IF s1.ok /\ ~dup /\ s3.ok
          THEN [ok |-> TRUE, db |-> d4]
          ELSE [ok |-> FALSE, db |-> db]

\* INSERT INTO users ...: a unique violation, an over-long referral_code or
\* a failing trigger rejects the whole statement
SqlInsertUser(db, row) ==
    LET clash == \E i \in 1..Len(db.users) :
                    \/ db.users[i].username = row.username
                    \/ db.users[i].email = row.email
                    \/ db.users[i].referral_code = row.referral_code
        fits == Len(row.referral_code) <= ReferralCodeMaxLen
        inserted == [db EXCEPT !.users = Append(@, row)]
        trig == handle_referral_bonus(inserted, row)
    IN  IF ~clash /\ fits /\ CoinsCheck(row) /\ trig.ok
        THEN [ok |-> TRUE, db |-> trig.db]
        ELSE [ok |-> FALSE, db |-> db]

(* --------------------------- requests ---------------------------------- *)
NoBody == [username |-> Undefined, email |-> Undefined, password |-> Undefined,
           referralCode |-> Undefined, suffix |-> Undefined]

\* the locals of a handler, all unset
Idle ==
    [pc |-> "idle", op |-> "none", userId |-> NullId, today |-> JsNull,
     body |-> NoBody, spec |-> NoBotSpec, referrerId |-> NullId,
     newId |-> NullId, lastClaim |-> JsNull, seenCoins |-> 0,
     code |-> 0, msg |-> "", botId |-> NullId,
     token |-> NullId, envVars |-> Undefined]

\* res.status(code).json(...): the handler is finished
Respond(r, code, msg) == [r EXCEPT !.pc = "done", !.code = code, !.msg = msg]

Handlers == BagToSet(inflight)

\* a request arrives and its handler runs up to its first await, reaching
\* nxt; a response already sent goes out with what the handler was asked
Arrive(nxt) ==
    /\ BagCardinality(inflight) < MaxInFlight
    /\ UNCHANGED mig
    /\ IF nxt.pc = "done"
       THEN inflight' = inflight /\ out' = nxt
       ELSE inflight' = inflight (+) SetToBag({nxt}) /\ out' = Idle

\* the handler r moves on to nxt; when it has responded, the response goes
\* out with what the handler was asked and what it read
Step(r, nxt) ==
    /\ UNCHANGED mig
    /\ IF nxt.pc = "done"
       THEN inflight' = inflight (-) SetToBag({r}) /\ out' = nxt
       ELSE inflight' = (inflight (-) SetToBag({r})) (+) SetToBag({nxt}) /\ out' = Idle

TypeOK ==
    /\ clock \in 1..MaxDay
    /\ nreq \in 0..MaxRequests
    /\ tokens \subseteq 1..Len(users)
    /\ timers \subseteq 1..Len(bots)
    /\ BagCardinality(inflight) <= MaxInFlight

Init ==
    /\ users = <<AdminUser, TestUser>>
    /\ bots = <<>>
    /\ coin_transactions = <<>>
    /\ referrals = <<>>
    /\ timers = {}
    /\ tokens = {}
    /\ clock = 1
    /\ nreq = 0
    /\ inflight = EmptyBag
    /\ out = Idle
    /\ mig = MigIdle

(* ----------------------- authenticateToken ----------------------------- *)
\* the middleware in front of every authenticated route: a request carrying
\* token tok either is answered 401/403 or enters the handler at pc first
\* with req.user.userId set
Authenticate(tok, op, first) ==
    IF tok = NoToken
    THEN Respond([Idle EXCEPT !.op = op], 401, "Access token required")
    ELSE IF tok \notin tokens
    THEN Respond([Idle EXCEPT !.op = op], 403, "Invalid token")
    ELSE [Idle EXCEPT !.pc = first, !.op = op, !.userId = tok]

TokenInputs == tokens \cup {NoToken, ForgedToken}

(* ---------------------- POST /api/register ----------------------------- *)
\* a request arrives; SELECT id FROM users WHERE email = $1 OR username = $2
RegCheck ==
    /\ nreq < MaxRequests
    /\ \E u \in Usernames, e \in Emails, p \in RegPasswords,
          c \in ReferralCodeInputs, s \in Suffixes :
          LET r == [Idle EXCEPT !.op = "register",
                                !.body = [username |-> u, email |-> e, password |-> p,
                                          referralCode |-> c, suffix |-> s]]
              exists == \E i \in 1..Len(users) :
                           users[i].email = e \/ users[i].username = u
          IN  Arrive(IF exists THEN Respond(r, 400, "User already exists")
                     ELSE IF c # Undefined THEN [r EXCEPT !.pc = "reg_ref"]
                     ELSE [r EXCEPT !.pc = "reg_insert"])
    /\ nreq' = nreq + 1
    /\ UNCHANGED <<users, bots, coin_transactions, referrals, timers, tokens, clock>>

\* the accounts whose referral_code is code
CodeOwners(code) == {i \in 1..Len(users) : users[i].referral_code = code}

\* a lookup that falls back on the first account when no account owns code
ReferrerOfOrFirst(code) ==
    IF CodeOwners(code) = {} THEN 1 ELSE CHOOSE i \in CodeOwners(code) : TRUE

\* if (referrer.rows.length > 0) referrerId = referrer.rows[0].id, with
\* referrerId = null before
ReferrerOf(code) ==
    IF CodeOwners(code) = {} THEN NullId ELSE CHOOSE i \in CodeOwners(code) : TRUE

\* SELECT id FROM users WHERE referral_code = $1
RegRef(r) ==
        /\ r.pc = "reg_ref"
        /\ Step(r, [r EXCEPT !.pc = "reg_insert",
                             !.referrerId = ReferrerOf(r.body.referralCode)])
        /\ UNCHANGED <<users, bots, coin_transactions, referrals, timers, tokens, clock, nreq>>

\* the row of INSERT INTO users (...) VALUES ($1 .. $7); the verification
\* token is a fresh random string
NewUserRow(r, id, vtoken) ==
    UserRow(id, r.body.username, r.body.email, BcryptHash(r.body.password),
            r.body.username \o r.body.suffix, r.referrerId, vtoken, FALSE, FALSE,
            IF r.referrerId # NullId THEN WelcomeBonus ELSE 0)

\* INSERT INTO users ... RETURNING id, username, email, coins
RegInsert(r) ==
    LET row == NewUserRow(r, Len(users) + 1, Len(users) + 1)
        ins == SqlInsertUser(Db, row)
    IN  /\ r.pc = "reg_insert"
        /\ users' = ins.db.users
        /\ coin_transactions' = ins.db.txns
        /\ referrals' = ins.db.referrals
        /\ Step(r, IF ~ins.ok THEN Respond(r, 500, "Registration failed")
                   ELSE [r EXCEPT !.pc = IF r.referrerId # NullId THEN "reg_bonus"
                                         ELSE "reg_mail",
                                  !.newId = row.id])
        /\ UNCHANGED <<bots, timers, tokens, clock, nreq>>

\* UPDATE users SET coins = coins + 100 WHERE id = $1
RegBonus(r) ==
    LET upd == SqlUpdateUser(Db, r.referrerId,
                    [users[r.referrerId] EXCEPT !.coins = @ + ReferrerBonus])
    IN  /\ r.pc = "reg_bonus"
        /\ users' = upd.db.users
        /\ coin_transactions' = upd.db.txns
        /\ Step(r, IF upd.ok THEN [r EXCEPT !.pc = "reg_mail"]
                   ELSE Respond(r, 500, "Registration failed"))
        /\ UNCHANGED <<bots, referrals, timers, tokens, clock, nreq>>

\* await transporter.sendMail(...), then jwt.sign and the 200 response; a
\* rejected sendMail lands in the catch block
RegMail(r) ==
    /\ r.pc = "reg_mail"
    /\ \E sent \in BOOLEAN :
          IF sent
          THEN /\ tokens' = tokens \cup {r.newId}
               /\ Step(r, Respond(r, 200, "registered"))
          ELSE /\ tokens' = tokens
               /\ Step(r, Respond(r, 500, "Registration failed"))
    /\ UNCHANGED <<users, bots, coin_transactions, referrals, timers, clock, nreq>>

(* ------------------------ POST /api/login ------------------------------ *)
\* if (result.rows.length === 0) return res.status(400).json(...)
UnknownEmailReply == [code |-> 400, msg |-> "Invalid credentials"]

\* a rejection of a wrong password that names the password
WrongPasswordReplyTelling == [code |-> 400, msg |-> "Wrong password"]

\* if (!validPassword) return res.status(400).json(...)
WrongPasswordReply == [code |-> 400, msg |-> "Invalid credentials"]

\* if (!user.is_verified) return res.status(400).json(...)
NotVerifiedReply == [code |-> 400, msg |-> "Please verify your email first"]

\* res.json({ token, user })
LoggedInReply == [code |-> 200, msg |-> "logged in"]

\* the two checks in the other order: bcrypt.compare before is_verified
LoginChecksPasswordFirst(user, p) ==
    IF ~BcryptCompare(p, user.password) THEN WrongPasswordReply
    ELSE IF ~user.is_verified THEN NotVerifiedReply
    ELSE LoggedInReply

\* the checks on the row found: is_verified, then bcrypt.compare
LoginChecks(user, p) ==
    IF ~user.is_verified THEN NotVerifiedReply
    ELSE IF ~BcryptCompare(p, user.password) THEN WrongPasswordReply
    ELSE LoggedInReply

\* a request with email e and password p arrives; SELECT * FROM users
\* WHERE email = $1, then the checks and jwt.sign
LoginRequest(e, p) ==
    /\    LET r == [Idle EXCEPT !.op = "login",
                                !.body = [NoBody EXCEPT !.email = e, !.password = p]]
              rows == {i \in 1..Len(users) : users[i].email = e}
              user == users[CHOOSE i \in rows : TRUE]
              reply == IF rows = {} THEN UnknownEmailReply ELSE LoginChecks(user, p)
          IN  /\ Arrive(Respond([r EXCEPT !.userId = IF rows = {} THEN NullId ELSE user.id],
                                reply.code, reply.msg))
              /\ tokens' = IF reply = LoggedInReply THEN tokens \cup {user.id} ELSE tokens
    /\ UNCHANGED <<users, bots, coin_transactions, referrals, timers, clock, nreq>>

\* a login with the email of a registration
LoginSelect == \E e \in Emails, p \in LoginPasswords : LoginRequest(e, p)

\* a login with the email of the seeded administrator
AdminLogin == \E p \in LoginPasswords : LoginRequest(AdminEmail, p)

(* ------------------- POST /api/claim-daily-coins ----------------------- *)
\* a request arrives, on the day of the previous claim request or on a
\* later one (no other handler reads the date); today is computed before
\* the first await, so the SELECT can run after a later request arrived
BeginClaim ==
    /\ nreq < MaxRequests
    /\ \E tok \in TokenInputs, day \in clock..MaxDay :
          LET r == Authenticate(tok, "claim", "claim_select")
          IN  /\ clock' = day
              /\ Arrive(IF r.pc = "done" THEN r
                        ELSE [r EXCEPT !.today = TodayString(day)])
    /\ nreq' = nreq + 1
    /\ UNCHANGED <<users, bots, coin_transactions, referrals, timers, tokens>>

\* SELECT last_coin_claim FROM users WHERE id = $1, compared with today
ClaimSelect(r) ==
    LET last == PgParseDate(users[r.userId].last_coin_claim)
    IN  /\ r.pc = "claim_select"
        /\ Step(r, IF StrictEquals(last, r.today)
                   THEN Respond([r EXCEPT !.lastClaim = last], 400,
                                "Already claimed coins today")
                   ELSE [r EXCEPT !.pc = "claim_update", !.lastClaim = last])
        /\ UNCHANGED <<users, bots, coin_transactions, referrals, timers, tokens, clock, nreq>>

\* the claim UPDATE without its last_coin_claim assignment
ClaimedRowCoinsOnly(row, today) == [row EXCEPT !.coins = @ + DailyCoins]

\* SET coins = coins + 10, last_coin_claim = $1
ClaimedRow(row, today) ==
    [row EXCEPT !.coins = @ + DailyCoins, !.last_coin_claim = today.v]

\* UPDATE users SET coins = coins + 10, last_coin_claim = $1 WHERE id = $2
ClaimUpdate(r) ==
    LET upd == SqlUpdateUser(Db, r.userId, ClaimedRow(users[r.userId], r.today))
    IN  /\ r.pc = "claim_update"
        /\ users' = upd.db.users
        /\ coin_transactions' = upd.db.txns
        /\ Step(r, IF upd.ok THEN [r EXCEPT !.pc = "claim_balance"]
                   ELSE Respond(r, 500, "Failed to claim coins"))
        /\ UNCHANGED <<bots, referrals, timers, tokens, clock, nreq>>

\* SELECT coins FROM users WHERE id = $1, then the 200 response
ClaimBalance(r) ==
    /\ r.pc = "claim_balance"
    /\ Step(r, Respond(r, 200, "10 coins claimed successfully"))
    /\ UNCHANGED <<users, bots, coin_transactions, referrals, timers, tokens, clock, nreq>>

(* -------------------------- POST /api/bots ----------------------------- *)
\* the balance check with its comparison turned around
InsufficientCoinsInverted(coins) == coins > DeployCost

\* if (userResult.rows[0].coins < 50)
InsufficientCoins(coins) == coins < DeployCost

\* a request arrives; SELECT coins FROM users WHERE id = $1, and the
\* balance check
BotSelect ==
    /\ nreq < MaxRequests
    /\ \E tok \in TokenInputs, spec \in BotSpecs :
          LET r == Authenticate(tok, "deploy", "bot_debit")
              coins == users[r.userId].coins
          IN  Arrive(IF r.pc = "done" THEN r
                     ELSE IF InsufficientCoins(coins)
                     THEN Respond([r EXCEPT !.seenCoins = coins, !.spec = spec], 400,
                                  "Insufficient coins")
                     ELSE [r EXCEPT !.seenCoins = coins, !.spec = spec])
    /\ nreq' = nreq + 1
    /\ UNCHANGED <<users, bots, coin_transactions, referrals, timers, tokens, clock>>

\* a debit computed from the balance the handler read: SET coins = $2, with
\* userResult.rows[0].coins - 50
DebitedRowFromRead(row, r) == [row EXCEPT !.coins = r.seenCoins - DeployCost]

\* SET coins = coins - 50
DebitedRow(row, r) == [row EXCEPT !.coins = @ - DeployCost]

\* UPDATE users SET coins = coins - 50 WHERE id = $1
BotDebit(r) ==
    LET upd == SqlUpdateUser(Db, r.userId, DebitedRow(users[r.userId], r))
    IN  /\ r.pc = "bot_debit"
        /\ users' = upd.db.users
        /\ coin_transactions' = upd.db.txns
        /\ Step(r, IF upd.ok THEN [r EXCEPT !.pc = "bot_insert"]
                   ELSE Respond(r, 500, "Failed to deploy bot"))
        /\ UNCHANGED <<bots, referrals, timers, tokens, clock, nreq>>

\* INSERT INTO bots (...) VALUES (..., 'pending') RETURNING *, then
\* setTimeout(...) and the 200 response
BotInsert(r) ==
    LET row == BotRow(Len(bots) + 1, r.userId, r.spec)
    IN  /\ r.pc = "bot_insert"
        /\ IF BotRowCheck(row)
           THEN /\ bots' = Append(bots, row)
                /\ timers' = timers \cup {row.id}
                /\ Step(r, Respond([r EXCEPT !.botId = row.id], 200,
                                   "Bot deployment started"))
           ELSE /\ bots' = bots
                /\ timers' = timers
                /\ Step(r, Respond(r, 500, "Failed to deploy bot"))
        /\ UNCHANGED <<users, coin_transactions, referrals, tokens, clock, nreq>>

\* a callback that marks the bot as being deployed and stops there
DeployedRowDeploying(row) == [row EXCEPT !.status = "deploying"]

\* SET status = $1, with 'deployed'
DeployedRow(row) == [row EXCEPT !.status = "deployed"]

\* the setTimeout callback: UPDATE bots SET status = 'deployed' WHERE id = $2
DeployTimer ==
    \E b \in timers :
        /\ bots' = [bots EXCEPT ![b] = DeployedRow(bots[b])]
        /\ timers' = timers \ {b}
        /\ out' = Idle
        /\ UNCHANGED <<users, coin_transactions, referrals, tokens, clock, nreq, inflight, mig>>

(* ----------------------- GET /api/verify-email ------------------------- *)
\* the tokens a caller may send: those stored, and one that is not
VerifyTokenInputs ==
    ({users[i].verification_token : i \in 1..Len(users)} \ {NullId}) \cup {NoSuchToken}

\* a request arrives; UPDATE users SET is_verified = true
\* WHERE verification_token = $1 RETURNING *
VerifyEmail ==
    /\ nreq < MaxRequests
    /\ \E t \in VerifyTokenInputs :
          LET r == [Idle EXCEPT !.op = "verify", !.token = t]
              rows == {i \in 1..Len(users) : users[i].verification_token = t}
              id == CHOOSE i \in rows : TRUE
              upd == SqlUpdateUser(Db, id, [users[id] EXCEPT !.is_verified = TRUE])
          IN  IF rows = {}
              THEN /\ Arrive(Respond(r, 400, "Invalid verification token"))
                   /\ UNCHANGED <<users, coin_transactions>>
              ELSE /\ users' = upd.db.users
                   /\ coin_transactions' = upd.db.txns
                   /\ Arrive(IF upd.ok
                             THEN Respond([r EXCEPT !.userId = id], 200,
                                          "Email verified successfully")
                             ELSE Respond(r, 500, "Verification failed"))
    /\ nreq' = nreq + 1
    /\ UNCHANGED <<bots, referrals, timers, tokens, clock>>

(* --------------------------- admin routes ------------------------------ *)
\* the admin routes with their is_admin test left out
AdminCheckDropped(row) == TRUE

\* if (!userResult.rows[0].is_admin) return res.status(403)...
AdminCheck(row) == row.is_admin

\* a request to an admin route arrives; SELECT is_admin FROM users
\* WHERE id = $1, and the test; r holds what the request carries
AdminGate(r, op, nxt) ==
    /\ nreq < MaxRequests
    /\ \E tok \in TokenInputs :
          LET a == Authenticate(tok, op, nxt)
              h == [a EXCEPT !.botId = r.botId, !.envVars = r.envVars]
          IN  Arrive(IF a.pc = "done" THEN a
                     ELSE IF ~AdminCheck(users[a.userId])
                     THEN Respond(h, 403, "Admin access required")
                     ELSE h)
    /\ nreq' = nreq + 1
    /\ UNCHANGED <<users, bots, coin_transactions, referrals, timers, tokens, clock>>

\* GET /api/admin/bots: the is_admin test
AdminBotsCheck == AdminGate(Idle, "admin_bots", "admin_bots_list")

\* SELECT b.*, u.username, u.email FROM bots b JOIN users u ..., res.json
AdminBotsList(r) ==
    /\ r.pc = "admin_bots_list"
    /\ Step(r, Respond(r, 200, "bots"))
    /\ UNCHANGED <<users, bots, coin_transactions, referrals, timers, tokens, clock, nreq>>

\* PUT /api/admin/bots/:id/env: the is_admin test
AdminEnvCheck ==
    \E b \in (1..Len(bots)) \cup {NoSuchBot}, e \in EnvInputs :
        AdminGate([Idle EXCEPT !.botId = b, !.envVars = e], "admin_env", "admin_env_update")

\* UPDATE bots SET env_vars = $1 WHERE id = $2, res.json
AdminEnvUpdate(r) ==
    /\ r.pc = "admin_env_update"
    /\ bots' = IF r.botId \in 1..Len(bots)
               THEN [bots EXCEPT ![r.botId].env_vars = r.envVars]
               ELSE bots
    /\ Step(r, Respond(r, 200, "Environment variables updated"))
    /\ UNCHANGED <<users, coin_transactions, referrals, timers, tokens, clock, nreq>>

\* GET /api/admin/stats: the is_admin test
AdminStatsCheck == AdminGate(Idle, "admin_stats", "admin_stats_count")

\* Promise.all of the four counting SELECTs, res.json
AdminStatsCount(r) ==
    /\ r.pc = "admin_stats_count"
    /\ Step(r, Respond(r, 200, "stats"))
    /\ UNCHANGED <<users, bots, coin_transactions, referrals, timers, tokens, clock, nreq>>

Register ==
    \/ RegCheck
    \/ \E r \in Handlers : RegRef(r)
    \/ \E r \in Handlers : RegInsert(r)
    \/ \E r \in Handlers : RegBonus(r)
    \/ \E r \in Handlers : RegMail(r)

Login == LoginSelect

ClaimDaily ==
    \/ BeginClaim
    \/ \E r \in Handlers : ClaimSelect(r)
    \/ \E r \in Handlers : ClaimUpdate(r)
    \/ \E r \in Handlers : ClaimBalance(r)

Deploy ==
    \/ BotSelect
    \/ \E r \in Handlers : BotDebit(r)
    \/ \E r \in Handlers : BotInsert(r)

Verify == VerifyEmail

Admin ==
    \/ AdminBotsCheck
    \/ \E r \in Handlers : AdminBotsList(r)
    \/ AdminEnvCheck
    \/ \E r \in Handlers : AdminEnvUpdate(r)
    \/ AdminStatsCheck
    \/ \E r \in Handlers : AdminStatsCount(r)

\* accounts, coins, referrals and deployments
Next == Register \/ Login \/ Verify \/ ClaimDaily \/ Deploy \/ DeployTimer

Spec == Init /\ [][Next]_vars

\* sessions, deployments and the admin routes: every operation that writes
\* what an admin route reads or writes (is_admin, the sessions, the bots);
\* the daily claim and the verification write none of it
AdminNext == Register \/ Login \/ AdminLogin \/ Deploy \/ DeployTimer \/ Admin

AdminSpec == Init /\ [][AdminNext]_vars

\* sessions, deployments and the admin routes, which are the operations
\* that write the bots table; a timer set with setTimeout fires
DeployNext == Login \/ AdminLogin \/ Deploy \/ DeployTimer \/ Admin

DeploySpec == Init /\ [][DeployNext]_vars /\ WF_vars(DeployTimer)

\* the migration script, run on its own (npm run migrate)
runMigrations == MigRead \/ MigStatement \/ MigCompleted
MigrateSpec == Init /\ [][runMigrations]_vars

(* ======================= properties of the ledger ====================== *)
UserIds == 1..Len(users)

RECURSIVE SumAmounts(_, _)
\* the sum of the amounts of the first n coin_transactions rows of user u
SumAmounts(u, n) ==
    IF n = 0 THEN 0
    ELSE SumAmounts(u, n - 1) +
         (IF coin_transactions[n].user_id = u THEN coin_transactions[n].amount ELSE 0)

\* what an account holds before any ledger event: the seeded balance of the
\* two accounts of the schema, nothing for a registered account
InitialGrant(u) == IF u = 1 THEN AdminCoins ELSE IF u = 2 THEN TestUserCoins ELSE 0

\* the response just sent answers a request of kind op
Sent(op) == out.pc = "done" /\ out.op = op

\* C1: every account's coins equal its initial grant plus the sum of the
\* amounts of the coin_transactions rows recorded for it
C1_BalanceEqualsLedger ==
    \A u \in UserIds :
        users[u].coins = InitialGrant(u) + SumAmounts(u, Len(coin_transactions))

\* a claim handler that read a last_coin_claim other than its day (it did
\* not see the update of any claim of that day) and has been credited
CreditedUnseen(r) ==
    /\ r.op = "claim" /\ r.pc = "claim_balance"
    /\ r.lastClaim.v # r.today.v

\* C2: of the concurrent claimDaily calls of one account on one day, none of
\* which saw another's update, at most one is credited
C2_OneClaimPerDay ==
    \A p, q \in Handlers :
        (/\ CreditedUnseen(p) /\ CreditedUnseen(q)
         /\ p.userId = q.userId /\ p.today = q.today) =>
            /\ p = q
            /\ CopiesIn(p, inflight) = 1

DeployRefused(r) ==
    r.code = 400 /\ r.msg = "Insufficient coins" /\ r.botId = NullId

\* C3: a requestDeployment call that read a balance of exactly 50 and finds
\* the account debited below 50 by a concurrent call is refused as
\* InsufficientBalance
C3_OneDeployOneRefusal ==
    [][\A r \in Handlers :
          (/\ BotDebit(r)
           /\ r.seenCoins = DeployCost
           /\ users[r.userId].coins < DeployCost) =>
              DeployRefused(out')]_vars

\* C4: no account ever holds a negative balance
C4_CoinsNonNegative == \A u \in UserIds : users[u].coins >= 0

\* a deployment request that read a balance of 50 and asked for an
\* acceptable bot was answered 500 with the account at 0: the store
\* refused its debit
C4_DebitRefused ==
    /\ Sent("deploy") /\ out.code = 500
    /\ out.seenCoins = DeployCost
    /\ BotRowCheck(BotRow(Len(bots) + 1, out.userId, out.spec))
    /\ users[out.userId].coins = 0

\* C5: a deployment request whose debit has been applied ends with its Bot
\* record created and reports success
C5_DebitAndBotAtomic ==
    [][\A r \in Handlers :
          BotInsert(r) =>
              /\ out'.code = 200
              /\ Len(bots') = Len(bots) + 1]_vars

\* the registration just answered named the referral code of an existing
\* account and was answered 200
ReferredRegistration ==
    /\ Sent("register") /\ out.code = 200
    /\ out.referrerId # NullId

ReferralRows(a, b) ==
    {i \in 1..Len(referrals) :
        referrals[i].referrer_id = a /\ referrals[i].referred_id = b}

\* C6: after B registered with A's referral code, as the only request so
\* far, B holds exactly 50 coins, A holds exactly 100 more than before, and
\* one referrals row links A to B
C6_ReferralScenario ==
    (ReferredRegistration /\ nreq = 1) =>
        /\ users[out.newId].coins = WelcomeBonus
        /\ users[out.referrerId].coins = InitialGrant(out.referrerId) + ReferrerBonus
        /\ Cardinality(ReferralRows(out.referrerId, out.newId)) = 1

\* the account b was registered by a request with the body of the
\* registration just answered, which named the referral code of b's referrer
RetryOf(b) ==
    /\ users[b].username = out.body.username
    /\ users[b].email = out.body.email
    /\ users[b].referrer_id # NullId
    /\ users[users[b].referrer_id].referral_code = out.body.referralCode
    /\ out.newId # b

\* C7: a registration with a referral code and its retry, the only two
\* requests so far and both answered, pay the referrer 100 and the new
\* account 50 once, and the retry fails
C7_RetryPaysOnce ==
    \A b \in UserIds :
        (/\ nreq = 2 /\ inflight = EmptyBag
         /\ Sent("register") /\ RetryOf(b)) =>
            /\ out.code # 200
            /\ Len(users) = 3
            /\ users[b].coins = WelcomeBonus
            /\ users[users[b].referrer_id].coins =
                   InitialGrant(users[b].referrer_id) + ReferrerBonus

Referred(a) == {b \in UserIds : users[b].referrer_id = a}

\* the bonuses the referral links of the table entitle account a to
ReferralDue(a) ==
    ReferrerBonus * Cardinality(Referred(a)) +
    (IF users[a].referrer_id # NullId THEN WelcomeBonus ELSE 0)

\* C8: the referral link and the two bonuses exist together or not at all:
\* an account with a referrer has its referrals row, every referrals row
\* belongs to such an account, and an account that never held a session (so
\* never claimed or spent) holds at least the bonuses its links entitle it
\* to and holds more than its initial grant only if it has a link
C8_ReferralAtomic ==
    /\ \A b \in UserIds :
          users[b].referrer_id # NullId =>
              \E i \in 1..Len(referrals) :
                  referrals[i] = ReferralRow(users[b].referrer_id, b)
    /\ \A i \in 1..Len(referrals) :
          /\ referrals[i].referred_id \in UserIds
          /\ users[referrals[i].referred_id].referrer_id = referrals[i].referrer_id
    /\ \A a \in UserIds :
          a \notin tokens =>
              /\ users[a].coins >= InitialGrant(a) + ReferralDue(a)
              /\ (users[a].coins > InitialGrant(a) => ReferralDue(a) > 0)

\* a registration with a referral code failed after its INSERT (the mail
\* was not sent)
C8_FailedAfterInsert ==
    /\ Sent("register") /\ out.code = 500
    /\ out.newId # NullId /\ out.referrerId # NullId
    /\ out.referrerId \notin tokens
    /\ out.newId \notin tokens

\* C9: a deployment request of an account holding less than 50 coins never
\* reaches the debit: it is answered Insufficient coins and changes no
\* table and no timer
C9_InsufficientNoEffect ==
    [][BotSelect =>
          /\ \A r \in BagToSet(inflight') :
                r.pc = "bot_debit" => r.seenCoins >= DeployCost
          /\ (/\ Sent("deploy")' /\ out'.userId # NullId
              /\ users[out'.userId].coins < DeployCost) =>
                 /\ DeployRefused(out')
                 /\ UNCHANGED <<users, bots, coin_transactions, referrals, timers>>]_vars

\* an authenticated deployment request was refused for a balance below 50
C9_Refused ==
    /\ Sent("deploy") /\ out.userId # NullId
    /\ DeployRefused(out) /\ out.seenCoins < DeployCost

\* C10: a successful deployment request leaves one pending bots row owned
\* by the caller and one coin_transactions row of -50 for the caller
C10_DeployRecorded ==
    (Sent("deploy") /\ out.code = 200) =>
        /\ bots[out.botId].user_id = out.userId
        /\ bots[out.botId].status = "pending"
        /\ \E i \in 1..Len(coin_transactions) :
              /\ coin_transactions[i].user_id = out.userId
              /\ coin_transactions[i].amount = 0 - DeployCost

(* ===================== properties of the daily claim =================== *)
AlreadyClaimed(r) == r.code = 400 /\ r.msg = "Already claimed coins today"

\* C11: a claimDaily call whose day is the day stored in the account's
\* last_coin_claim is answered Already claimed coins today
C11_SameDayRefused ==
    [][\A r \in Handlers :
          (/\ ClaimSelect(r)
           /\ users[r.userId].last_coin_claim = r.today.v) =>
              AlreadyClaimed(out')]_vars

\* C12: a claimDaily call of an account whose last_coin_claim is absent or
\* an earlier day than the call's is not refused, and its update adds
\* exactly 10 to coins and sets last_coin_claim to the call's day
C12_ClaimCredits ==
    [][\A r \in Handlers :
          /\ (/\ ClaimSelect(r)
              /\ users[r.userId].last_coin_claim < r.today.v) =>
                 out'.pc # "done"
          /\ ClaimUpdate(r) =>
                 /\ users'[r.userId].coins = users[r.userId].coins + DailyCoins
                 /\ users'[r.userId].last_coin_claim = r.today.v
                 /\ out'.pc # "done"]_vars

\* the second of two claims on consecutive days has been answered 200: the
\* account is 20 above what it held
C12_TwoDays ==
    /\ Sent("claim") /\ out.code = 200
    /\ out.today.v = 2 /\ out.lastClaim.v = 1
    /\ users[out.userId].coins = InitialGrant(out.userId) + 2 * DailyCoins
    /\ users[out.userId].last_coin_claim = 2

(* ===================== properties of registration ====================== *)
DuplicateIdentity(r) == r.code = 400 /\ r.msg = "User already exists"

\* C13: a registration whose INSERT finds its username or email taken (by a
\* concurrent registration that passed the same check) is answered User
\* already exists
C13_DuplicateRejected ==
    [][\A r \in Handlers :
          (/\ RegInsert(r)
           /\ \E i \in 1..Len(users) :
                 \/ users[i].email = r.body.email
                 \/ users[i].username = r.body.username) =>
              /\ DuplicateIdentity(out')
              /\ UNCHANGED <<users, coin_transactions, referrals>>]_vars

\* C14: a registration whose account row is committed is answered 200,
\* whether or not the verification mail could be sent
C14_MailFailureSwallowed ==
    [][\A r \in Handlers : RegMail(r) => out'.code = 200]_vars

(* ========================= properties of login ========================= *)
Reply(r) == [code |-> r.code, msg |-> r.msg]

\* C16: a login for an existing account that is not verified is answered
\* Please verify your email first, for a right and for a wrong password
\* alike, and issues no session
C16_NotVerifiedFirst ==
    [][(/\ LoginSelect
        /\ out'.userId # NullId
        /\ ~users[out'.userId].is_verified) =>
           /\ Reply(out') = NotVerifiedReply
           /\ tokens' = tokens]_vars

\* a login with the wrong password for an existing unverified account was
\* answered Please verify your email first
C16_WrongPasswordUnverified ==
    /\ Sent("login") /\ out.userId # NullId
    /\ ~users[out.userId].is_verified
    /\ ~BcryptCompare(out.body.password, users[out.userId].password)
    /\ Reply(out) = NotVerifiedReply

\* the login just answered named an email no account has
UnknownEmail ==
    /\ Sent("login")
    /\ \A i \in UserIds : users[i].email # out.body.email

\* the login just answered named a verified account and a wrong password
WrongPassword ==
    /\ Sent("login") /\ out.userId # NullId
    /\ users[out.userId].is_verified
    /\ ~BcryptCompare(out.body.password, users[out.userId].password)

\* C17: the answer to a login with an unknown email is the answer a wrong
\* password for a verified account gets, and the other way round
C17_SameRejection ==
    /\ UnknownEmail => Reply(out) = WrongPasswordReply
    /\ WrongPassword => Reply(out) = UnknownEmailReply

\* a login with a wrong password for a verified account was rejected
C17_WrongPasswordRejected == WrongPassword /\ out.code = 400

(* =================== properties of unknown referral codes ============== *)
\* the registration r names a referral code that no account owns
UnknownCode(r) ==
    /\ r.op = "register"
    /\ r.body.referralCode # Undefined
    /\ CodeOwners(r.body.referralCode) = {}

\* the username and the email of registration r are free
Fresh(r) ==
    \A i \in 1..Len(users) :
        users[i].email # r.body.email /\ users[i].username # r.body.username

\* C19: a registration with a referral code no account owns is stopped
\* neither by the lookup nor by the INSERT (its username and email being
\* free); the INSERT stores an account with no referrer and 0 coins, adds
\* no referrals row and no ledger row and changes no other account; the
\* mail step changes no table, and the only failure it can answer is the
\* one of the mail transport
C19_UnknownCodeNoOp ==
    [][\A r \in Handlers :
          UnknownCode(r) =>
              /\ RegRef(r) => out'.pc # "done"
              /\ (RegInsert(r) /\ Fresh(r)) =>
                    /\ Len(users') = Len(users) + 1
                    /\ out'.pc # "done"
                    /\ users'[Len(users')].referrer_id = NullId
                    /\ users'[Len(users')].coins = 0
                    /\ \A i \in 1..Len(users) : users'[i] = users[i]
                    /\ UNCHANGED <<referrals, coin_transactions>>
              /\ RegMail(r) =>
                    /\ out'.code = 200 \/ out'.msg = "Registration failed"
                    /\ UNCHANGED <<users, referrals, coin_transactions>>]_vars

\* a registration naming a code no account owns was answered 200 and its
\* account holds 0 coins and has no referrer
C19_Registered ==
    /\ Sent("register") /\ out.code = 200
    /\ UnknownCode(out)
    /\ users[out.newId].coins = 0
    /\ users[out.newId].referrer_id = NullId
    /\ referrals = <<>>

(* ================== properties of the claim ledger ===================== *)
\* C20: every claim UPDATE, which adds 10 to the account, appends exactly
\* one coin_transactions row of +10 of type daily_claim for the account,
\* and the steps of a claim that add no coins append none
C20_ClaimLedgered ==
    [][\A r \in Handlers :
          /\ ClaimUpdate(r) =>
                coin_transactions' =
                    Append(coin_transactions, TxnRow(r.userId, DailyCoins, "daily_claim"))
          /\ (ClaimSelect(r) \/ ClaimBalance(r)) => UNCHANGED coin_transactions]_vars

(* ==================== properties of the verification =================== *)
\* C15: a verify-email call with the token of an account that is already
\* verified (a call with that token succeeded before) is answered Invalid
\* verification token
C15_TokenConsumed ==
    [][(/\ VerifyEmail
        /\ \E i \in UserIds :
              /\ users[i].verification_token = out'.token
              /\ users[i].is_verified) =>
           (out'.code = 400 /\ out'.msg = "Invalid verification token")]_vars

(* ==================== properties of the admin routes =================== *)
AdminOps == {"admin_bots", "admin_env", "admin_stats"}

Forbidden(r) == r.code = 403 /\ r.msg = "Admin access required"

ClaimApplied(u) == users[u].last_coin_claim # NullDate

\* the debit of a deployment of account u has been applied
DebitApplied(u) ==
    \/ \E b \in 1..Len(bots) : bots[b].user_id = u
    \/ \E r \in Handlers : r.pc = "bot_insert" /\ r.userId = u

\* C21: when a claim and a deployment of one account are the only two
\* requests so far, in whatever order their statements ran: once both
\* writes are applied the balance is the initial one plus 10 minus 50, and
\* a deployment still before its debit finds the claim's 10 added and
\* enough coins for the debit
C21_NoLostUpdate ==
    \A u \in UserIds :
        (nreq = 2 /\ ClaimApplied(u)) =>
            /\ DebitApplied(u) =>
                  users[u].coins = InitialGrant(u) + DailyCoins - DeployCost
            /\ \A r \in Handlers :
                  (r.pc = "bot_debit" /\ r.userId = u) =>
                      /\ users[u].coins = InitialGrant(u) + DailyCoins
                      /\ users[u].coins >= DeployCost

\* a claim and a deployment of one account are in flight together, the
\* deployment read the balance before the claim's update, and both writes
\* are applied
C21_BothApplied ==
    \E c, d \in Handlers :
        /\ nreq = 2
        /\ c.pc = "claim_balance" /\ d.pc = "bot_insert"
        /\ c.userId = d.userId
        /\ d.seenCoins = InitialGrant(d.userId)
        /\ users[d.userId].coins = InitialGrant(d.userId) + DailyCoins - DeployCost

(* ==================== properties of the bot status ===================== *)
\* every row added to bots is pending, and the only change of a row's
\* status is from pending to deployed
StatusStep ==
    /\ Len(bots') >= Len(bots)
    /\ \A b \in 1..Len(bots') :
          IF b > Len(bots)
          THEN bots'[b].status = "pending"
          ELSE bots'[b].status # bots[b].status =>
                  bots[b].status = "pending" /\ bots'[b].status = "deployed"

\* C22: a bot is created pending, its status only ever goes from pending
\* to deployed, and, the timer callback being run, every pending bot is
\* eventually deployed
C22_PendingThenDeployed ==
    /\ [][StatusStep]_vars
    /\ \A b \in 1..MaxRequests :
          (b <= Len(bots) /\ bots[b].status = "pending") ~>
              (b <= Len(bots) /\ bots[b].status = "deployed")

\* the timer of a bot has run: the bot is deployed
C22_Deployed ==
    \E b \in 1..Len(bots) : bots[b].status = "deployed" /\ b \notin timers

(* ======================= frame of claim and deployment ================= *)
\* the rows of the accounts other than u, and the bots they own, are as
\* they were; no account is added or removed
OthersUnchanged(u) ==
    /\ Len(users') = Len(users)
    /\ \A v \in 1..Len(users) : v # u => users'[v] = users[v]
    /\ Len(bots') >= Len(bots)
    /\ \A b \in 1..Len(bots') :
          IF b > Len(bots) THEN bots'[b].user_id = u
          ELSE bots[b].user_id # u => bots'[b] = bots[b]

\* C23: every step of a claim or of a deployment of account X, the timer of
\* X's bot included, leaves the rows of all other accounts, the bots they
\* own and the referrals as they were
C23_OnlyCaller ==
    [][/\ (BeginClaim \/ BotSelect) => UNCHANGED <<users, bots, referrals>>
       /\ \A r \in Handlers :
             (\/ ClaimSelect(r) \/ ClaimUpdate(r) \/ ClaimBalance(r)
              \/ BotDebit(r) \/ BotInsert(r)) =>
                 OthersUnchanged(r.userId) /\ UNCHANGED referrals
       /\ DeployTimer =>
             /\ UNCHANGED <<users, referrals>>
             /\ \A b \in 1..Len(bots) : b \notin timers => bots'[b] = bots[b]]_vars

\* a deployment of an account was answered 200, its balance is below what
\* it started with, and the seeded administrator's row is as it was seeded
C23_OtherUntouched ==
    /\ Sent("deploy") /\ out.code = 200
    /\ out.userId # 1
    /\ users[out.userId].coins < InitialGrant(out.userId) + ReferralDue(out.userId)
    /\ users[1] = AdminUser
    /\ \A b \in 1..Len(bots) : bots[b].user_id = out.userId

(* ========================= properties of sessions ====================== *)
\* C24: every account that holds a session token is verified, and every
\* handler of a claim or a deployment runs for a verified account
C24_SessionsVerified ==
    /\ \A u \in tokens : users[u].is_verified
    /\ \A r \in Handlers :
          r.op \in {"claim", "deploy"} => users[r.userId].is_verified

IsPrefix(s, t) == Len(s) <= Len(t) /\ SubSeq(t, 1, Len(s)) = s

\* what was sent so far, and the statements of the schema file, white space
\* around them aside
SentTexts == [k \in 1..Len(mig.sent) |-> Trimmed(mig.sent[k])]
FileTexts == [k \in 1..Len(mig.schema) |-> StatementText(mig.schema[k])]
PieceTexts == [k \in 1..Len(mig.statements) |-> Trimmed(mig.statements[k]) \o <<Semi>>]

Failure(msg) == msg # NoError /\ ~Includes(msg, AlreadyExists)

\* the loop sends the pieces of the split in order; an 'already exists'
\* error does not stop it; any other error is the last thing the run does
MigErrorHandling ==
    /\ Len(mig.log) = Len(mig.sent)
    /\ IsPrefix(SentTexts, PieceTexts)
    /\ \A k \in 1..Len(mig.log) :
          Failure(mig.log[k]) => (k = Len(mig.log) /\ mig.pc = "failed")
    /\ mig.pc = "failed" => (mig.log # <<>> /\ Failure(mig.log[Len(mig.log)]))
    /\ mig.pc = "completed" => Len(mig.sent) = Len(mig.statements)

\* a run that went on after an 'already exists' error and was ended by
\* another error before the last piece
MigSkippedThenFailed ==
    /\ mig.pc = "failed"
    /\ Len(mig.sent) < Len(mig.statements)
    /\ \E k \in 1..Len(mig.log) : mig.log[k] = RelationExists

\* C25: runMigrations executes the statements of the schema file one at a
\* time in file order: what it has sent to the server is always the first
\* statements of the file, all of them when the run completes; an error
\* whose message contains 'already exists' is skipped and the run goes on,
\* any other error ends the run as failed with nothing sent after it.
C25_StatementsInFileOrder ==
    /\ IsPrefix(SentTexts, FileTexts)
    /\ mig.pc = "completed" => Len(mig.sent) = Len(mig.schema)
    /\ MigErrorHandling

====
